---- MODULE Spec2Model ----
(***************************************************************************)
(* Model of dashboard_app.py: a Streamlit script that loads a CSV of       *)
(* clustered recipes through a memoised loader and re-executes top to      *)
(* bottom on every browser load and every change of the sidebar selector.  *)
(*                                                                         *)
(* Python strings that are ordered or compared with the sentinel 'All'     *)
(* (the cluster labels) are sequences of code points; category and traffic *)
(* values, column names and page elements are TLA+ strings.  A proportion  *)
(* is the exact fraction <<numerator, denominator>>.                       *)
(***************************************************************************)
EXTENDS Integers, Sequences, FiniteSets, TLC

\* Largest number of rows of the CSV that is explored.
MaxRows == 2

VARIABLES
    csv,                  \* the file on disk: [exists, table]
    cache,                \* entries memoised by @st.cache_data for load_data
    reads,                \* number of successful pd.read_csv executions
    selected_cluster_id,  \* value of the sidebar selectbox
    status,               \* "init" | "stopped" | "done" | "KeyError"
    page,                 \* elements emitted by the last run, in order
    df_clustered,         \* script global of the last run
    cluster_counts,
    all_clusters,
    display_data,
    avg_numeric_features,
    category_counts,
    traffic_counts,
    traffic_data,
    fig_pca

vars == <<csv, cache, reads, selected_cluster_id, status, page, df_clustered,
          cluster_counts, all_clusters, display_data, avg_numeric_features,
          category_counts, traffic_counts, traffic_data, fig_pca>>

-----------------------------------------------------------------------------
(* Values                                                                  *)

\* A missing cell (float nan after pd.read_csv).
NaN == "NaN"

\* The sentinel option 'All' as code points.
All == <<65, 108, 108>>

NumericCols == {"calories", "carbohydrate", "sugar", "protein", "servings_numeric"}

RequiredCols == {"Cluster", "category"} \cup NumericCols

OptionalCols == {"high_traffic", "high_traffic_High",
                 "high_traffic_No_Traffic_Info", "PC1", "PC2"}

\* Cluster ids written by the upstream K-Means step.
ClusterIds == {2, 10}

Categories == {"Pork", "Dessert", NaN}

\* The traffic class of a recipe; missing when the recipe is not high traffic.
TrafficClasses == {"High", NaN}

\* A frame that was never bound.
NoFrame == [columns |-> {}, rows |-> <<>>]

Range(s) == {s[i] : i \in DOMAIN s}

\* A recipe with every column: the one-hot columns encode the traffic class.
FullRow(k, c, t) ==
    [col \in RequiredCols \cup OptionalCols |->
        CASE col = "Cluster" -> k
          [] col = "category" -> c
          [] col = "high_traffic" -> t
          [] col = "high_traffic_High" -> IF t = "High" THEN 1 ELSE 0
          [] col = "high_traffic_No_Traffic_Info" -> IF t = "High" THEN 0 ELSE 1
          [] col = "PC1" -> k
          [] col = "PC2" -> IF t = "High" THEN 1 ELSE 0
          [] OTHER -> 1]

RowsWith(cols) ==
    {[col \in cols |-> FullRow(k, c, t)[col]] :
        k \in ClusterIds, c \in Categories, t \in TrafficClasses}

\* The CSV files of the input contract with the optional columns `opt` and
\* `n` recipes: every required column is present.
Tables(opt, n) ==
    {[columns |-> RequiredCols \cup opt, rows |-> rs] :
        rs \in [1..n -> RowsWith(RequiredCols \cup opt)]}

-----------------------------------------------------------------------------
(* Python and pandas primitives                                            *)

\* str(n) for a non-negative int: its decimal digits as code points.
RECURSIVE str(_)
str(n) == IF n < 10 THEN <<48 + n>> ELSE str(n \div 10) \o <<48 + (n % 10)>>

\* a < b on Python strings (code point order).
RECURSIVE StrLess(_, _)
StrLess(a, b) ==
    IF b = <<>> THEN FALSE
    ELSE IF a = <<>> THEN TRUE
    ELSE IF Head(a) < Head(b) THEN TRUE
    ELSE IF Head(a) > Head(b) THEN FALSE
    ELSE StrLess(Tail(a), Tail(b))

\* sorted(S) for a collection of distinct strings.
RECURSIVE sorted(_)
sorted(S) ==
    IF S = {} THEN <<>>
    ELSE LET m == CHOOSE x \in S : \A y \in S \ {x} : StrLess(x, y)
         IN <<m>> \o sorted(S \ {m})

\* df[c]
Column(df, c) == [i \in DOMAIN df.rows |-> df.rows[i][c]]

Count(s, v) == Cardinality({i \in DOMAIN s : s[i] = v})

RECURSIVE Sum(_)
Sum(s) == IF s = <<>> THEN 0 ELSE Head(s) + Sum(Tail(s))

\* Series.dropna()
dropna(s) == SelectSeq(s, LAMBDA v : v # NaN)

\* Series.value_counts() on a series without missing values.
value_counts(s) == {[index |-> v, value |-> Count(s, v)] : v \in Range(s)}

\* Series.value_counts(normalize=True): missing values are dropped first and
\* each count is divided by the number of values that remain.
value_counts_normalize(s) ==
    LET kept == dropna(s)
    IN {[index |-> v, value |-> <<Count(kept, v), Len(kept)>>] : v \in Range(kept)}

\* Series.sort_index() on a series indexed by strings.
sort_index(series) ==
    LET idx == sorted({e.index : e \in series})
    IN [i \in DOMAIN idx |-> CHOOSE e \in series : e.index = idx[i]]

\* DataFrame[cols].mean(): per column the fraction <<sum, number of rows>>.
mean(df, cols) == [c \in cols |-> <<Sum(Column(df, c)), Len(df.rows)>>]

-----------------------------------------------------------------------------
(* The script, top to bottom                                               *)

\* load_data without the memoisation: every call runs the body.
load_data_uncached(entries, file) ==
    IF file.exists
    THEN [stopped |-> FALSE, read |-> TRUE, df |-> file.table, page |-> <<>>]
    ELSE [stopped |-> TRUE, read |-> FALSE, df |-> NoFrame, page |-> <<"error">>]

\* Lines 13-20: load_data under @st.cache_data.  A hit returns a copy of the
\* memoised frame without running the body; a miss runs pd.read_csv, and a
\* missing file emits st.error and st.stop() (nothing is memoised).
load_data(entries, file) ==
    IF entries # {}
    THEN [stopped |-> FALSE, read |-> FALSE,
          df |-> CHOOSE t \in entries : TRUE, page |-> <<>>]
    ELSE IF file.exists
    THEN [stopped |-> FALSE, read |-> TRUE, df |-> file.table, page |-> <<>>]
    ELSE [stopped |-> TRUE, read |-> FALSE, df |-> NoFrame, page |-> <<"error">>]

\* What @st.cache_data holds after the call.
cache_after_call(entries, loaded) ==
    IF loaded.read THEN {loaded.df} ELSE entries

\* load_data reporting the error without st.stop(): the script goes on.
st_stop_missing(emitted, rest) == emitted \o rest

\* st.stop(): the elements emitted so far are the whole page.
st_stop(emitted, rest) == emitted

\* Line 24: df_clustered['Cluster'] = df_clustered['Cluster'].astype(str)
astype_str(df) ==
    [columns |-> df.columns,
     rows |-> [i \in DOMAIN df.rows |->
                 [df.rows[i] EXCEPT !["Cluster"] = str(@)]]]

\* The cluster summary computed on the filtered view.
cluster_counts_of_view(df, view) == sort_index(value_counts(Column(view, "Cluster")))

\* Line 36: df_clustered['Cluster'].value_counts().sort_index()
cluster_counts_of(df, view) == sort_index(value_counts(Column(df, "Cluster")))

\* Line 53: sorted(df_clustered['Cluster'].unique())
all_clusters_of(df) == sorted(Range(Column(df, "Cluster")))

\* Lines 54-58: the options of the selectbox.
options(clusters) == <<All>> \o clusters

\* The selection ignored: the view is always the full table.
display_data_unfiltered(df, selected) == df

\* Lines 60-65.
display_data_of(df, selected) ==
    IF selected = All
    THEN df
    ELSE [columns |-> df.columns,
          rows |-> SelectSeq(df.rows, LAMBDA r : r["Cluster"] = selected)]

\* Lines 69-72.
avg_numeric_features_of(view) == mean(view, NumericCols)

\* Proportions taken over every row of the view, missing categories included.
category_counts_over_rows(df, view) ==
    LET s == Column(view, "category")
    IN {[index |-> v, value |-> <<Count(s, v), Len(s)>>] : v \in Range(dropna(s))}

\* Line 88.
category_counts_of(df, view) == value_counts_normalize(Column(view, "category"))

\* The notice emitted only next to the fallback chart.
traffic_section_notice_in_fallback(df, view) ==
    IF "high_traffic" \in df.columns
    THEN [page |-> <<"subheader", "fig_traffic">>,
          traffic_counts |-> value_counts_normalize(Column(view, "high_traffic")),
          traffic_data |-> <<>>]
    ELSE IF "high_traffic_High" \in df.columns
    THEN [page |-> <<"subheader", "info", "fig_traffic_ohe">>,
          traffic_counts |-> {},
          traffic_data |->
             <<[type |-> "High Traffic",
                count |-> Sum(Column(view, "high_traffic_High"))],
               [type |-> "No Traffic Info",
                count |-> IF "high_traffic_No_Traffic_Info" \in df.columns
                          THEN Sum(Column(view, "high_traffic_No_Traffic_Info"))
                          ELSE Len(view.rows) - Sum(Column(view, "high_traffic_High"))]>>]
    ELSE [page |-> <<"subheader">>, traffic_counts |-> {}, traffic_data |-> <<>>]

\* The traffic frequencies taken on the full table instead of the view.
traffic_section_of_full_table(df, view) ==
    IF "high_traffic" \in df.columns
    THEN [page |-> <<"subheader", "fig_traffic">>,
          traffic_counts |-> value_counts_normalize(Column(df, "high_traffic")),
          traffic_data |-> <<>>]
    ELSE IF "high_traffic_High" \in df.columns
    THEN [page |-> <<"subheader", "info", "fig_traffic_ohe">>,
          traffic_counts |-> {},
          traffic_data |->
             <<[type |-> "High Traffic",
                count |-> Sum(Column(df, "high_traffic_High"))],
               [type |-> "No Traffic Info",
                count |-> IF "high_traffic_No_Traffic_Info" \in df.columns
                          THEN Sum(Column(df, "high_traffic_No_Traffic_Info"))
                          ELSE Len(df.rows) - Sum(Column(df, "high_traffic_High"))]>>]
    ELSE [page |-> <<"subheader", "info">>, traffic_counts |-> {}, traffic_data |-> <<>>]

\* Lines 102-136: the High Traffic Distribution section.
traffic_section(df, view) ==
    IF "high_traffic" \in df.columns
    THEN [page |-> <<"subheader", "fig_traffic">>,
          traffic_counts |-> value_counts_normalize(Column(view, "high_traffic")),
          traffic_data |-> <<>>]
    ELSE IF "high_traffic_High" \in df.columns
    THEN LET high_traffic_count == Sum(Column(view, "high_traffic_High"))
             no_traffic_info_count ==
                 IF "high_traffic_No_Traffic_Info" \in df.columns
                 THEN Sum(Column(view, "high_traffic_No_Traffic_Info"))
                 ELSE Len(view.rows) - high_traffic_count
         IN [page |-> <<"subheader", "info", "fig_traffic_ohe">>,
             traffic_counts |-> {},
             traffic_data |-> <<[type |-> "High Traffic", count |-> high_traffic_count],
                                [type |-> "No Traffic Info", count |-> no_traffic_info_count]>>]
    ELSE [page |-> <<"subheader", "info">>, traffic_counts |-> {}, traffic_data |-> <<>>]

\* The scatter drawn from the filtered view.
pca_section_of_view(df, view) ==
    IF "PC1" \in df.columns /\ "PC2" \in df.columns
    THEN [page |-> <<"header", "markdown", "fig_pca">>,
          points |-> [i \in DOMAIN view.rows |->
                        [x |-> view.rows[i]["PC1"], y |-> view.rows[i]["PC2"],
                         color |-> view.rows[i]["Cluster"]]]]
    ELSE [page |-> <<"header", "markdown", "warning", "write">>, points |-> <<>>]

\* Lines 139-160: the PCA section; one scatter point per row of the frame
\* handed to px.scatter.
pca_section(df, view) ==
    IF "PC1" \in df.columns /\ "PC2" \in df.columns
    THEN [page |-> <<"header", "markdown", "fig_pca">>,
          points |-> [i \in DOMAIN df.rows |->
                        [x |-> df.rows[i]["PC1"], y |-> df.rows[i]["PC2"],
                         color |-> df.rows[i]["Cluster"]]]]
    ELSE [page |-> <<"header", "markdown", "warning", "write">>, points |-> <<>>]

\* Line 161: st.write(display_data['high_traffic'].value_counts()) at the
\* top level of the script; indexing an absent column raises KeyError.
tail_section(df, view) ==
    IF "high_traffic" \in view.columns
    THEN [page |-> <<"write">>, status |-> "done"]
    ELSE [page |-> <<"exception">>, status |-> "KeyError"]

\* Lines 26-161: everything after the load.
body(raw, selected) ==
    LET df      == astype_str(raw)
        view    == display_data_of(df, selected)
        traffic == traffic_section(df, view)
        pca     == pca_section(df, view)
        tail    == tail_section(df, view)
    IN [page |-> <<"title", "markdown", "sidebar.header", "sidebar.subheader",
                   "sidebar.write", "sidebar.dataframe", "fig_counts",
                   "header", "sidebar.selectbox",
                   "subheader", "fig_avg_nutrients",
                   "subheader", "fig_category">>
                 \o traffic.page \o pca.page \o tail.page,
        status |-> tail.status,
        df_clustered |-> df,
        cluster_counts |-> cluster_counts_of(df, view),
        all_clusters |-> all_clusters_of(df),
        display_data |-> view,
        avg_numeric_features |-> avg_numeric_features_of(view),
        category_counts |-> category_counts_of(df, view),
        traffic_counts |-> traffic.traffic_counts,
        traffic_data |-> traffic.traffic_data,
        fig_pca |-> pca.points]

\* The run that st.stop() ended in load_data.
halted(emitted) ==
    [page |-> emitted, status |-> "stopped", df_clustered |-> NoFrame,
     cluster_counts |-> <<>>, all_clusters |-> <<>>, display_data |-> NoFrame,
     avg_numeric_features |-> [c \in NumericCols |-> <<0, 0>>],
     category_counts |-> {}, traffic_counts |-> {}, traffic_data |-> <<>>,
     fig_pca |-> <<>>]

\* The memoised frame shared with the script and filtered in place.
cache_after_run_in_place(entries, selected) ==
    {[columns |-> t.columns,
      rows |-> SelectSeq(t.rows, LAMBDA r : selected = All \/ str(r["Cluster"]) = selected)] :
        t \in entries}

\* The cache after a run: load_data hands the script a copy and display_data
\* is a new frame, so nothing the script does reaches the memoised frame.
cache_after_run(entries, selected) == entries

\* One execution of the script with the selectbox at `selected`.
Script(selected) ==
    \E loaded \in {load_data(cache, csv)} :
    \E run \in {IF loaded.stopped
                THEN halted(st_stop(loaded.page, body(loaded.df, selected).page))
                ELSE body(loaded.df, selected)} :
       /\ cache' = cache_after_run(cache_after_call(cache, loaded), selected)
       /\ reads' = IF loaded.read THEN reads + 1 ELSE reads
       /\ selected_cluster_id' = selected
       /\ status' = run.status
       /\ page' = run.page
       /\ df_clustered' = run.df_clustered
       /\ cluster_counts' = run.cluster_counts
       /\ all_clusters' = run.all_clusters
       /\ display_data' = run.display_data
       /\ avg_numeric_features' = run.avg_numeric_features
       /\ category_counts' = run.category_counts
       /\ traffic_counts' = run.traffic_counts
       /\ traffic_data' = run.traffic_data
       /\ fig_pca' = run.fig_pca
       /\ UNCHANGED csv

-----------------------------------------------------------------------------
(* State machine                                                           *)

Init ==
    /\ \/ csv = [exists |-> FALSE, table |-> NoFrame]
       \/ \E opt \in SUBSET OptionalCols, n \in 1..MaxRows :
             \E t \in Tables(opt, n) : csv = [exists |-> TRUE, table |-> t]
    /\ cache = {}
    /\ reads = 0
    /\ selected_cluster_id = All
    /\ status = "init"
    /\ page = <<>>
    /\ df_clustered = NoFrame
    /\ cluster_counts = <<>>
    /\ all_clusters = <<>>
    /\ display_data = NoFrame
    /\ avg_numeric_features = [c \in NumericCols |-> <<0, 0>>]
    /\ category_counts = {}
    /\ traffic_counts = {}
    /\ traffic_data = <<>>
    /\ fig_pca = <<>>

\* The page is opened or reloaded in the browser: the selectbox starts at its
\* first option.
Open == Script(All)

\* The user picks another option of the selectbox rendered by the last run.
SelectCluster ==
    /\ "sidebar.selectbox" \in Range(page)
    /\ \E o \in Range(options(all_clusters)) :
          /\ o # selected_cluster_id
          /\ Script(o)

Next == Open \/ SelectCluster

Spec == Init /\ [][Next]_vars

-----------------------------------------------------------------------------
(* Properties                                                              *)

\* The last run got past load_data.
Rendered == status \in {"done", "KeyError"}

Has(element) == element \in Range(page)

TrafficCols == {"high_traffic", "high_traffic_High", "high_traffic_No_Traffic_Info"}

\* Number of rows of the CSV whose cluster id, as a string, is `label`.
RowsLabelled(label) ==
    Cardinality({i \in DOMAIN csv.table.rows : str(csv.table.rows[i]["Cluster"]) = label})

RECURSIVE SumOfNumerators(_)
SumOfNumerators(series) ==
    IF series = {} THEN 0
    ELSE LET e == CHOOSE x \in series : TRUE
         IN e.value[1] + SumOfNumerators(series \ {e})

\* The proportions of a normalised series add up to exactly 1.
SumsToOne(series) ==
    /\ series # {}
    /\ \E d \in 1..Len(display_data.rows) :
          /\ \A e \in series : e.value[2] = d
          /\ SumOfNumerators(series) = d

\* C1: a render of a table with every required column runs to the end of the
\* page whatever optional columns are absent: it ends without an exception.
C1_RendersToEnd == Rendered => (status = "done" /\ ~Has("exception"))

\* C2: selecting label L yields exactly the rows whose Cluster, as a string,
\* equals L (every such row as often as in the table, no other row);
\* selecting 'All' yields the full table.
C2_FilterExact ==
    Rendered =>
        IF selected_cluster_id = All
        THEN display_data = df_clustered
        ELSE /\ display_data.columns = df_clustered.columns
             /\ Len(display_data.rows) = RowsLabelled(selected_cluster_id)
             /\ \A r \in Range(df_clustered.rows) \cup Range(display_data.rows) :
                   Count(display_data.rows, r) =
                       IF r["Cluster"] = selected_cluster_id
                       THEN Count(df_clustered.rows, r) ELSE 0

C2_Witness ==
    /\ Rendered
    /\ selected_cluster_id # All
    /\ Len(display_data.rows) >= 1
    /\ Len(display_data.rows) < Len(df_clustered.rows)

\* C3: when the CSV does not exist the run shows the error and halts: the
\* error is the only element of the page.
C3_MissingFileHalts ==
    (status # "init" /\ ~csv.exists) => (status = "stopped" /\ page = <<"error">>)

C3_Witness == status = "stopped" /\ ~csv.exists /\ Has("error")

\* C4: with PC1 and PC2 both present the scatter has one point per row of the
\* full table, whatever the selection; with either absent there is a warning
\* and no scatter.
C4_Scatter ==
    Rendered =>
        IF {"PC1", "PC2"} \subseteq csv.table.columns
        THEN /\ Has("fig_pca") /\ ~Has("warning")
             /\ Len(fig_pca) = Len(csv.table.rows)
             /\ \A i \in DOMAIN fig_pca :
                   /\ fig_pca[i].x = csv.table.rows[i]["PC1"]
                   /\ fig_pca[i].y = csv.table.rows[i]["PC2"]
        ELSE Has("warning") /\ ~Has("fig_pca") /\ fig_pca = <<>>

C4_Witness ==
    /\ Rendered
    /\ Has("fig_pca")
    /\ selected_cluster_id # All
    /\ Len(display_data.rows) < Len(fig_pca)

\* C5: with no high_traffic column and no one-hot traffic column the traffic
\* section shows the informational notice and no traffic chart.
C5_NoTrafficColumns ==
    (Rendered /\ TrafficCols \cap csv.table.columns = {}) =>
        /\ Has("info")
        /\ ~Has("fig_traffic") /\ ~Has("fig_traffic_ohe")
        /\ traffic_counts = {} /\ traffic_data = <<>>

C5_Witness ==
    Rendered /\ TrafficCols \cap csv.table.columns = {} /\ Has("info")

\* C6 as stated: for any non-empty view the per-category proportions of the
\* category chart sum to 1.
C6_Original ==
    (Rendered /\ Len(display_data.rows) > 0) => SumsToOne(category_counts)

\* C6 amended: for any view with at least one row whose category is not
\* missing the proportions sum to 1, the counts adding up to the number of
\* rows of the view whose category is not missing.
C6_Amended ==
    (Rendered /\ \E i \in DOMAIN display_data.rows :
                     display_data.rows[i]["category"] # NaN) =>
        /\ SumsToOne(category_counts)
        /\ SumOfNumerators(category_counts) =
               Cardinality({i \in DOMAIN display_data.rows :
                               display_data.rows[i]["category"] # NaN})

C6_Witness ==
    /\ Rendered
    /\ \E i, j \in DOMAIN display_data.rows :
          /\ display_data.rows[i]["category"] = NaN
          /\ display_data.rows[j]["category"] # NaN
    /\ SumsToOne(category_counts)

\* C7: the per-cluster counts are those of the full table, listed in
\* ascending label order, whatever the selection.
C7_ClusterCounts ==
    Rendered =>
        /\ {cluster_counts[i].index : i \in DOMAIN cluster_counts} =
               {str(csv.table.rows[j]["Cluster"]) : j \in DOMAIN csv.table.rows}
        /\ \A i \in DOMAIN cluster_counts :
               cluster_counts[i].value = RowsLabelled(cluster_counts[i].index)
        /\ \A i, j \in DOMAIN cluster_counts :
               i < j => StrLess(cluster_counts[i].index, cluster_counts[j].index)

C7_Witness ==
    /\ Rendered
    /\ selected_cluster_id # All
    /\ Len(cluster_counts) = 2

\* C8: the file is read at most once; every run that renders uses the table
\* memoised by that one read.
C8_ReadOnce ==
    /\ reads <= 1
    /\ Rendered => (reads = 1 /\ cache = {csv.table})

C8_Witness == reads = 1 /\ Rendered /\ selected_cluster_id # All /\ cache # {}

\* C9 as stated: exactly one of chart, fallback chart, notice; the notice
\* only when no traffic chart is drawn.
C9_Original ==
    Rendered =>
        /\ Cardinality({e \in {"fig_traffic", "fig_traffic_ohe", "info"} : Has(e)}) = 1
        /\ Has("fig_traffic") <=> "high_traffic" \in csv.table.columns
        /\ Has("info") <=> TrafficCols \cap csv.table.columns = {}

\* C9 amended: with high_traffic present, the chart of its normalised
\* frequencies on the filtered view and no notice; otherwise the notice, and
\* with it the fallback chart exactly when high_traffic_High is present.
C9_Amended ==
    Rendered =>
        IF "high_traffic" \in csv.table.columns
        THEN /\ Has("fig_traffic") /\ ~Has("info") /\ ~Has("fig_traffic_ohe")
             /\ {e.index : e \in traffic_counts} =
                    Range(Column(display_data, "high_traffic")) \ {NaN}
             /\ \A e \in traffic_counts :
                    e.value = <<Count(Column(display_data, "high_traffic"), e.index),
                                Len(display_data.rows)
                                  - Count(Column(display_data, "high_traffic"), NaN)>>
        ELSE /\ Has("info") /\ ~Has("fig_traffic")
             /\ Has("fig_traffic_ohe") <=> "high_traffic_High" \in csv.table.columns
             /\ Has("fig_traffic_ohe") =>
                    /\ Len(traffic_data) = 2
                    /\ traffic_data[1].count =
                           Sum(Column(display_data, "high_traffic_High"))
                    /\ traffic_data[2].count =
                           IF "high_traffic_No_Traffic_Info" \in csv.table.columns
                           THEN Sum(Column(display_data, "high_traffic_No_Traffic_Info"))
                           ELSE Len(display_data.rows) - traffic_data[1].count

C9_Witness ==
    /\ Rendered
    /\ Has("info") /\ Has("fig_traffic_ohe")
    /\ selected_cluster_id # All
    /\ Len(display_data.rows) < Len(df_clustered.rows)

\* C10: no run changes the memoised table, and the view of every run is the
\* one a first run with that selection produces from the file.
C10_TableNeverMutated ==
    [][cache # {} =>
          /\ cache' = cache
          /\ df_clustered' = astype_str(csv.table)
          /\ display_data' = display_data_of(astype_str(csv.table), selected_cluster_id')]_vars

C10_Witness ==
    /\ Rendered
    /\ selected_cluster_id # All
    /\ cache = {csv.table}
    /\ Len(display_data.rows) < Len(csv.table.rows)

====
